---- MODULE Spec2Model ----
(***************************************************************************)
(* Model of the UTXO ledger store of hornet (pkg/model/utxo/utxo.go).      *)
(*                                                                         *)
(* The key-value store is a function from keys to values; a key is the     *)
(* sequence of its fields (prefix byte, 32-byte hashes as one field each,  *)
(* little-endian integers byte by byte).  A batch of mutations is the      *)
(* sequence of the operations staged on it; Commit applies them in order,  *)
(* atomically.                                                             *)
(***************************************************************************)
EXTENDS Integers, Sequences, FiniteSets, TLC

\* ------------------------------------------------------------------ bounds
MaxTx == 2
MaxLen == 2
MaxMsIndex == 2
MaxCalls == 2
NumThreads == 2

\* --------------------------------------------------------------- universes
TransactionIDs == 1..MaxTx
Addresses == {170}
Amounts == {100}
TargetTransactionIDs == {3, 4}
OutputIndexes == {0}
MilestoneIndexes == 1..MaxMsIndex

Outputs ==
  [TransactionID : TransactionIDs, OutputIndex : OutputIndexes,
   Address : Addresses, Amount : Amounts]

Spents == [Output : Outputs, TargetTransactionID : TargetTransactionIDs]

\* All sequences over S of length at most n.
SeqsUpTo(S, n) == UNION {[1..k -> S] : k \in 0..n}

\* ------------------------------------------------------------ key prefixes
UTXOStoreKeyPrefixOutput == 79
UTXOStoreKeyPrefixUnspent == 85
UTXOStoreKeyPrefixSpent == 83
UTXOStoreKeyPrefixMilestoneDiffs == 68

\* ---------------------------------------------------------------- encoding
\* binary.LittleEndian.PutUint16
PutUint16(i) == <<i % 256, (i \div 256) % 256>>

\* binary.LittleEndian.PutUint32
PutUint32(i) ==
  <<i % 256, (i \div 256) % 256, (i \div 65536) % 256, (i \div 16777216) % 256>>

\* binary.LittleEndian.Uint16
Uint16(b) == b[1] + 256 * b[2]

\* Output.kvStorableKey: transactionID ++ outputIndex
OutputKvStorableKey(output) ==
  <<output.TransactionID>> \o PutUint16(output.OutputIndex)

\* Output.UTXOKey: address ++ transactionID ++ outputIndex
UTXOKey(output) == <<output.Address>> \o OutputKvStorableKey(output)

\* Output.kvStorableValue: address ++ amount
OutputKvStorableValue(output) == <<output.Address, output.Amount>>

\* Output.kvStorableLoad: the record is rebuilt from key and value; an error
\* when either has the wrong number of fields.
OutputLoadOk(key, value) == Len(key) = 3 /\ Len(value) = 2

OutputKvStorableLoad(key, value) ==
  [TransactionID |-> key[1], OutputIndex |-> Uint16(SubSeq(key, 2, 3)),
   Address |-> value[1], Amount |-> value[2]]

\* Spent.kvStorableKey: address ++ transactionID ++ outputIndex of the output
SpentKvStorableKey(spent) == UTXOKey(spent.Output)

\* Spent.kvStorableValue: the reference to the spending transaction
SpentKvStorableValue(spent) == <<spent.TargetTransactionID>>

NoOutput == [TransactionID |-> 0, OutputIndex |-> 0, Address |-> 0, Amount |-> 0]

SpentLoadOk(key, value) == Len(key) = 3 /\ Len(value) = 1

\* Spent.kvStorableLoad: the Output is attached by the caller afterwards.
SpentKvStorableLoad(key, value) ==
  [Output |-> NoOutput, TargetTransactionID |-> value[1]]

\* key[33:] of an Unspent or Spent key: the prefix byte and the address dropped
KeyWithoutPrefixAndAddress(key) == SubSeq(key, 3, Len(key))

\* ------------------------------------------------------------------- store
EmptyStore == [k \in {} |-> <<>>]

Has(s, key) == key \in DOMAIN s

\* kvstore Set / Delete applied to a store
StoreSet(s, key, value) ==
  [k \in (DOMAIN s) \cup {key} |-> IF k = key THEN value ELSE s[k]]

StoreDelete(s, key) == [k \in (DOMAIN s) \ {key} |-> s[k]]

ApplyOp(s, op) ==
  IF op.kind = "set" THEN StoreSet(s, op.key, op.value) ELSE StoreDelete(s, op.key)

RECURSIVE ApplyBatch(_, _)
\* BatchedMutations.Commit: the staged operations, in the order staged
ApplyBatch(s, staged) ==
  IF staged = <<>> THEN s ELSE ApplyBatch(ApplyOp(s, Head(staged)), Tail(staged))

\* utxoStorage.Batched(): an empty batch; the failAt-th staging call on it
\* returns an error (0: none does).
Batched(failAt) == [staged |-> <<>>, calls |-> 0, failAt |-> failAt]

\* BatchedMutations.Set
BatchSet(m, key, value) ==
  LET n == m.calls + 1 IN
  IF n = m.failAt
    THEN [m |-> [m EXCEPT !.calls = n], err |-> TRUE]
    ELSE [m |-> [m EXCEPT !.calls = n,
                          !.staged = Append(@, [kind |-> "set", key |-> key, value |-> value])],
          err |-> FALSE]

\* BatchedMutations.Delete
BatchDelete(m, key) ==
  LET n == m.calls + 1 IN
  IF n = m.failAt
    THEN [m |-> [m EXCEPT !.calls = n], err |-> TRUE]
    ELSE [m |-> [m EXCEPT !.calls = n,
                          !.staged = Append(@, [kind |-> "delete", key |-> key, value |-> <<>>])],
          err |-> FALSE]

\* --------------------------------------------------------- staging helpers
storeOutput(output, mutations) ==
  BatchSet(mutations, <<UTXOStoreKeyPrefixOutput>> \o OutputKvStorableKey(output),
           OutputKvStorableValue(output))

markAsUnspent(output, mutations) ==
  BatchSet(mutations, <<UTXOStoreKeyPrefixUnspent>> \o UTXOKey(output), <<>>)

\* Mutant of storeSpentAndRemoveUnspent: the Output record is deleted with
\* the Unspent marker.
storeSpentAndRemoveUnspent_DeletingOutput(spent, mutations) ==
  LET key == SpentKvStorableKey(spent)
      unspentKey == <<UTXOStoreKeyPrefixUnspent>> \o key
      spentKey == <<UTXOStoreKeyPrefixSpent>> \o key
      outputKey == <<UTXOStoreKeyPrefixOutput>> \o OutputKvStorableKey(spent.Output)
      d == BatchDelete(BatchDelete(mutations, outputKey).m, unspentKey)
  IN BatchSet(d.m, spentKey, SpentKvStorableValue(spent))

\* The error of Delete is not looked at.
storeSpentAndRemoveUnspent(spent, mutations) ==
  LET key == SpentKvStorableKey(spent)
      unspentKey == <<UTXOStoreKeyPrefixUnspent>> \o key
      spentKey == <<UTXOStoreKeyPrefixSpent>> \o key
      d == BatchDelete(mutations, unspentKey)
  IN BatchSet(d.m, spentKey, SpentKvStorableValue(spent))

RECURSIVE ConcatOutputKeys(_)
ConcatOutputKeys(outs) ==
  IF outs = <<>> THEN <<>>
  ELSE OutputKvStorableKey(Head(outs)) \o ConcatOutputKeys(Tail(outs))

RECURSIVE ConcatSpentKeys(_)
ConcatSpentKeys(spents) ==
  IF spents = <<>> THEN <<>>
  ELSE SpentKvStorableKey(Head(spents)) \o ConcatSpentKeys(Tail(spents))

MilestoneDiffKey(msIndex) ==
  <<UTXOStoreKeyPrefixMilestoneDiffs>> \o PutUint32(msIndex)

\* Mutant of storeDiffValue: both counts are written before the keys.
storeDiffValue_CountsFirst(newOutputs, newSpents) ==
  PutUint32(Len(newOutputs)) \o PutUint32(Len(newSpents))
    \o ConcatOutputKeys(newOutputs) \o ConcatSpentKeys(newSpents)

\* the value storeDiff builds in its buffer
storeDiffValue(newOutputs, newSpents) ==
  PutUint32(Len(newOutputs)) \o ConcatOutputKeys(newOutputs)
    \o PutUint32(Len(newSpents)) \o ConcatSpentKeys(newSpents)

storeDiff(msIndex, newOutputs, newSpents, mutations) ==
  BatchSet(mutations, MilestoneDiffKey(msIndex), storeDiffValue(newOutputs, newSpents))

RECURSIVE StageOutputs(_, _)
\* the loop over newOutputs of ApplyConfirmation
StageOutputs(outs, mutations) ==
  IF outs = <<>> THEN [m |-> mutations, err |-> FALSE]
  ELSE LET r1 == storeOutput(Head(outs), mutations) IN
       IF r1.err THEN r1
       ELSE LET r2 == markAsUnspent(Head(outs), r1.m) IN
            IF r2.err THEN r2 ELSE StageOutputs(Tail(outs), r2.m)

RECURSIVE StageSpents(_, _)
\* the loop over newSpents of ApplyConfirmation
StageSpents(spents, mutations) ==
  IF spents = <<>> THEN [m |-> mutations, err |-> FALSE]
  ELSE LET r == storeSpentAndRemoveUnspent(Head(spents), mutations) IN
       IF r.err THEN r ELSE StageSpents(Tail(spents), r.m)

\* The number of staging calls ApplyConfirmation makes when none fails.
NumStagingCalls(newOutputs, newSpents) == 2 * Len(newOutputs) + 2 * Len(newSpents) + 1

\* The body of ApplyConfirmation between Lock and Unlock, on store s:
\* failAt in 1..NumStagingCalls makes that staging call fail,
\* NumStagingCalls + 1 makes Commit fail.
ApplyConfirmationBody(s, msIndex, newOutputs, newSpents, failAt) ==
  LET r1 == StageOutputs(newOutputs, Batched(failAt))
      r2 == StageSpents(newSpents, r1.m)
      r3 == storeDiff(msIndex, newOutputs, newSpents, r2.m)
      commitFails == failAt = NumStagingCalls(newOutputs, newSpents) + 1
  IN IF r1.err \/ r2.err \/ r3.err
       THEN [store |-> s, err |-> TRUE, cancelled |-> TRUE, commitInvoked |-> FALSE]
     ELSE IF commitFails
       THEN [store |-> s, err |-> TRUE, cancelled |-> FALSE, commitInvoked |-> TRUE]
     ELSE [store |-> ApplyBatch(s, r3.m.staged), err |-> FALSE,
           cancelled |-> FALSE, commitInvoked |-> TRUE]

\* ----------------------------------------------------------------- queries
RECURSIVE LexLess(_, _)
\* bytes.Compare(a, b) < 0: the order in which the store iterates keys
LexLess(a, b) ==
  IF a = <<>> THEN b # <<>>
  ELSE IF b = <<>> THEN FALSE
  ELSE IF Head(a) # Head(b) THEN Head(a) < Head(b)
  ELSE LexLess(Tail(a), Tail(b))

HasPrefix(key, prefix) ==
  Len(key) >= Len(prefix) /\ SubSeq(key, 1, Len(prefix)) = prefix

KeysWithPrefix(s, prefix) == {k \in DOMAIN s : HasPrefix(k, prefix)}

RECURSIVE SortedKeys(_)
\* the keys of a set in ascending order
SortedKeys(K) ==
  IF K = {} THEN <<>>
  ELSE LET least == CHOOSE k \in K : \A j \in K \ {k} : LexLess(k, j)
       IN <<least>> \o SortedKeys(K \ {least})

\* The consumer function of IterateKeys in UnspentOutputsForAddress, called
\* on one key: the Output record is read (ioFail: that Get fails with an I/O
\* error; a Get of an absent key fails with ErrKeyNotFound) and appended.
\* continue is the consumer's return value.
UnspentConsumer(s, key, ioFail, outputs) ==
  LET outputKey == <<UTXOStoreKeyPrefixOutput>> \o KeyWithoutPrefixAndAddress(key) IN
  IF ioFail
    THEN [continue |-> FALSE, acc |-> outputs, ioError |-> TRUE, missing |-> FALSE]
  ELSE IF ~Has(s, outputKey)
    THEN [continue |-> FALSE, acc |-> outputs, ioError |-> FALSE, missing |-> TRUE]
  ELSE IF ~OutputLoadOk(Tail(outputKey), s[outputKey])
    THEN [continue |-> FALSE, acc |-> outputs, ioError |-> FALSE, missing |-> FALSE]
  ELSE [continue |-> TRUE,
        acc |-> Append(outputs, OutputKvStorableLoad(Tail(outputKey), s[outputKey])),
        ioError |-> FALSE, missing |-> FALSE]

\* The consumer function of Iterate in SpentOutputsForAddress.
SpentConsumer(s, key, ioFail, spents) ==
  LET value == s[key]
      outputKey == <<UTXOStoreKeyPrefixOutput>> \o KeyWithoutPrefixAndAddress(key)
  IN
  IF ~SpentLoadOk(KeyWithoutPrefixAndAddress(key), value)
    THEN [continue |-> FALSE, acc |-> spents, ioError |-> FALSE, missing |-> FALSE]
  ELSE IF ioFail
    THEN [continue |-> FALSE, acc |-> spents, ioError |-> TRUE, missing |-> FALSE]
  ELSE IF ~Has(s, outputKey)
    THEN [continue |-> FALSE, acc |-> spents, ioError |-> FALSE, missing |-> TRUE]
  ELSE IF ~OutputLoadOk(Tail(outputKey), s[outputKey])
    THEN [continue |-> FALSE, acc |-> spents, ioError |-> FALSE, missing |-> FALSE]
  ELSE [continue |-> TRUE,
        acc |-> Append(spents,
                  [SpentKvStorableLoad(KeyWithoutPrefixAndAddress(key), value)
                     EXCEPT !.Output = OutputKvStorableLoad(Tail(outputKey), s[outputKey])]),
        ioError |-> FALSE, missing |-> FALSE]

Consumer(op, s, key, ioFail, acc) ==
  IF op = "UnspentOutputsForAddress" THEN UnspentConsumer(s, key, ioFail, acc)
  ELSE SpentConsumer(s, key, ioFail, acc)

PrefixOf(op) ==
  IF op = "UnspentOutputsForAddress" THEN UTXOStoreKeyPrefixUnspent
  ELSE UTXOStoreKeyPrefixSpent

RECURSIVE Iterate(_, _, _, _, _, _)
\* kvstore IterateKeys / Iterate: the consumer is called on each key in turn
\* until it returns false. gets counts the consumer calls made so far; in the
\* ioFailAt-th one the Get fails with an I/O error (0: in none).
Iterate(op, s, keys, gets, ioFailAt, acc) ==
  IF keys = <<>> THEN [acc |-> acc, ioError |-> FALSE, missing |-> FALSE]
  ELSE LET r == Consumer(op, s, Head(keys), gets + 1 = ioFailAt, acc) IN
       IF r.continue THEN Iterate(op, s, Tail(keys), gets + 1, ioFailAt, r.acc)
       ELSE [acc |-> r.acc, ioError |-> r.ioError, missing |-> r.missing]

\* UnspentOutputsForAddress between RLock and RUnlock: the error returned is
\* the one of IterateKeys, which is nil when the consumer stops the iteration.
UnspentOutputsForAddressBody(s, address, ioFailAt) ==
  LET addressKeyPrefix == <<UTXOStoreKeyPrefixUnspent, address>>
      r == Iterate("UnspentOutputsForAddress", s,
                   SortedKeys(KeysWithPrefix(s, addressKeyPrefix)), 0, ioFailAt, <<>>)
  IN [result |-> r.acc, err |-> FALSE, ioError |-> r.ioError, missing |-> r.missing]

\* SpentOutputsForAddress between RLock and RUnlock.
SpentOutputsForAddressBody(s, address, ioFailAt) ==
  LET addressKeyPrefix == <<UTXOStoreKeyPrefixSpent, address>>
      r == Iterate("SpentOutputsForAddress", s,
                   SortedKeys(KeysWithPrefix(s, addressKeyPrefix)), 0, ioFailAt, <<>>)
  IN [result |-> r.acc, err |-> FALSE, ioError |-> r.ioError, missing |-> r.missing]

\* --------------------------------------------------------- message metadata
MessageHashLength == 32

MessageMetadataSolid == 0
MessageMetadataConfirmed == 1
MessageMetadataConflicting == 2

\* bitmask.BitMask.HasBit
HasBit(b, bit) == (b \div (2 ^ bit)) % 2 = 1

\* bitmask.BitMask.ModifyBit
ModifyBit(b, bit, v) ==
  IF v = HasBit(b, bit) THEN b
  ELSE IF v THEN b + 2 ^ bit ELSE b - 2 ^ bit

\* a hornet.Hash of MessageHashLength bytes, each byte b
HashOf(b) == [i \in 1..MessageHashLength |-> b]

NullMessageID == HashOf(0)

\* the message IDs and parent IDs of the records
MessageIDs == {HashOf(1)}
ParentIDs == {HashOf(17), HashOf(34)}

\* int32(time.Now().Unix()): a time before and a time after the int32 wraps
Times == {1604448000, -2147483000}

\* milestone.Index values handed to the setters
MetaIndexes == {0, 42, 2147483647}

\* (ycri, ocri, ci) handed to SetConeRootIndexes
ConeTriples == {<<0, 0, 0>>, <<7, 5, 9>>, <<2147483647, 42, 7>>}

NewMessageMetadata(messageID, parent1MessageID, parent2MessageID) ==
  [messageID |-> messageID, metadata |-> 0, solidificationTimestamp |-> 0,
   confirmationIndex |-> 0, youngestConeRootIndex |-> 0, oldestConeRootIndex |-> 0,
   coneRootCalculationIndex |-> 0, parent1MessageID |-> parent1MessageID,
   parent2MessageID |-> parent2MessageID, modified |-> FALSE]

\* Mutant of SetSolidBody: the timestamp is kept when the flag is cleared.
SetSolidBody_KeepingTimestamp(r, solid, now) ==
  IF solid # HasBit(r.metadata, MessageMetadataSolid)
    THEN [r EXCEPT !.solidificationTimestamp = IF solid THEN now ELSE @,
                   !.metadata = ModifyBit(r.metadata, MessageMetadataSolid, solid),
                   !.modified = TRUE]
    ELSE r

\* Mutant of SetSolidBody: the timestamp and the marker are set by every call.
SetSolidBody_Unconditional(r, solid, now) ==
  [r EXCEPT !.solidificationTimestamp = IF solid THEN now ELSE 0,
            !.metadata = ModifyBit(r.metadata, MessageMetadataSolid, solid),
            !.modified = TRUE]

\* SetSolid between Lock and Unlock; now is int32(time.Now().Unix())
SetSolidBody(r, solid, now) ==
  IF solid # HasBit(r.metadata, MessageMetadataSolid)
    THEN [r EXCEPT !.solidificationTimestamp = IF solid THEN now ELSE 0,
                   !.metadata = ModifyBit(r.metadata, MessageMetadataSolid, solid),
                   !.modified = TRUE]
    ELSE r

\* Mutant of SetConfirmedBody: the index is taken by every call.
SetConfirmedBody_Unconditional(r, confirmed, confirmationIndex) ==
  [r EXCEPT !.confirmationIndex = IF confirmed THEN confirmationIndex ELSE 0,
            !.metadata = ModifyBit(r.metadata, MessageMetadataConfirmed, confirmed),
            !.modified = TRUE]

\* SetConfirmed between Lock and Unlock
SetConfirmedBody(r, confirmed, confirmationIndex) ==
  IF confirmed # HasBit(r.metadata, MessageMetadataConfirmed)
    THEN [r EXCEPT !.confirmationIndex = IF confirmed THEN confirmationIndex ELSE 0,
                   !.metadata = ModifyBit(r.metadata, MessageMetadataConfirmed, confirmed),
                   !.modified = TRUE]
    ELSE r

\* SetConflicting between Lock and Unlock
SetConflictingBody(r, conflicting) ==
  IF conflicting # HasBit(r.metadata, MessageMetadataConflicting)
    THEN [r EXCEPT !.metadata = ModifyBit(r.metadata, MessageMetadataConflicting, conflicting),
                   !.modified = TRUE]
    ELSE r

\* SetConeRootIndexes between Lock and Unlock
SetConeRootIndexesBody(r, ycri, ocri, ci) ==
  [r EXCEPT !.youngestConeRootIndex = ycri, !.oldestConeRootIndex = ocri,
            !.coneRootCalculationIndex = ci, !.modified = TRUE]

GetConfirmedBody(r) == <<HasBit(r.metadata, MessageMetadataConfirmed), r.confirmationIndex>>

GetConeRootIndexesBody(r) ==
  <<r.youngestConeRootIndex, r.oldestConeRootIndex, r.coneRootCalculationIndex>>

ObjectStorageKey(r) == r.messageID

\* ObjectStorageValue between Lock and Unlock. The four bytes of uint32(x) for
\* a negative int32 x are those of x modulo 2^32, which PutUint32 yields.
ObjectStorageValueBody(r) ==
  <<r.metadata>>
    \o PutUint32(r.solidificationTimestamp)
    \o PutUint32(r.confirmationIndex)
    \o PutUint32(r.youngestConeRootIndex)
    \o PutUint32(r.oldestConeRootIndex)
    \o PutUint32(r.coneRootCalculationIndex)
    \o r.parent1MessageID
    \o r.parent2MessageID

\* binary.LittleEndian.Uint32, for values below 2^31
Uint32(b) == b[1] + 256 * b[2] + 65536 * b[3] + 16777216 * b[4]

\* int32(binary.LittleEndian.Uint32(b))
Int32OfUint32(b) ==
  b[1] + 256 * b[2] + 65536 * b[3] + 16777216 * (IF b[4] >= 128 THEN b[4] - 256 ELSE b[4])

\* A Go slice: its bytes b, and the bytes cap of its array after them.
SliceOf(bytes) == [b |-> bytes, cap |-> <<>>]

\* s[lo:hi] is in range (hi may exceed the length, not the capacity)
InRange(s, lo, hi) == lo <= hi /\ hi <= Len(s.b) + Len(s.cap)

\* the bytes of s[lo:hi]
Slice(s, lo, hi) == SubSeq(s.b \o s.cap, lo + 1, hi)

\* Mutant of MetadataFactory: the parents are read in the other order.
MetadataFactory_ParentsSwapped(key, data) ==
  IF ~InRange(key, 0, 32) \/ ~InRange(data, 21, 21 + 32 + 32) \/ Len(data.b) < 1
    THEN [panic |-> TRUE, err |-> FALSE, m |-> <<>>]
    ELSE [panic |-> FALSE, err |-> FALSE,
          m |-> <<[NewMessageMetadata(Slice(key, 0, 32), Slice(data, 21 + 32, 21 + 32 + 32),
                                      Slice(data, 21, 21 + 32))
                   EXCEPT !.metadata = data.b[1],
                          !.solidificationTimestamp = Int32OfUint32(Slice(data, 1, 5)),
                          !.confirmationIndex = Uint32(Slice(data, 5, 9)),
                          !.youngestConeRootIndex = Uint32(Slice(data, 9, 13)),
                          !.oldestConeRootIndex = Uint32(Slice(data, 13, 17)),
                          !.coneRootCalculationIndex = Uint32(Slice(data, 17, 21))]>>]

\* MetadataFactory: panic is the run-time panic of a slice or index out of
\* range; otherwise the record is returned with a nil error.
MetadataFactory(key, data) ==
  IF ~InRange(key, 0, 32) \/ ~InRange(data, 21, 21 + 32 + 32) \/ Len(data.b) < 1
    THEN [panic |-> TRUE, err |-> FALSE, m |-> <<>>]
    ELSE [panic |-> FALSE, err |-> FALSE,
          m |-> <<[NewMessageMetadata(Slice(key, 0, 32), Slice(data, 21, 21 + 32),
                                      Slice(data, 21 + 32, 21 + 32 + 32))
                   EXCEPT !.metadata = data.b[1],
                          !.solidificationTimestamp = Int32OfUint32(Slice(data, 1, 5)),
                          !.confirmationIndex = Uint32(Slice(data, 5, 9)),
                          !.youngestConeRootIndex = Uint32(Slice(data, 9, 13)),
                          !.oldestConeRootIndex = Uint32(Slice(data, 13, 17)),
                          !.coneRootCalculationIndex = Uint32(Slice(data, 17, 21))]>>]

\* The records the program holds when it starts: created by NewMessageMetadata
\* or persisted by an earlier run and loaded through MetadataFactory.
MetaRecords ==
  {MetadataFactory(SliceOf(ObjectStorageKey(r)), SliceOf(ObjectStorageValueBody(r))).m[1] :
     r \in {SetConeRootIndexesBody(
              SetConflictingBody(
                SetConfirmedBody(
                  SetSolidBody(NewMessageMetadata(x[1], x[2], x[3]), x[4], x[5]),
                  x[6], x[7]),
                x[8]),
              x[9][1], x[9][2], x[9][3]) :
            x \in MessageIDs \X ParentIDs \X ParentIDs \X BOOLEAN \X Times
                    \X BOOLEAN \X MetaIndexes \X BOOLEAN \X ConeTriples}}

\* the identities of outputs, and the key bytes of one
Identities == TransactionIDs \X OutputIndexes

IdentityKey(id) == <<id[1]>> \o PutUint16(id[2])

\* ------------------------------------------------------------------- state
VARIABLES
  store,   \* utxoStorage: key -> value
  calls,   \* number of ApplyConfirmation calls made
  utxoLock, \* the RWMutex: w the thread holding the writer mutex (0: none),
           \* writing whether it has the lock, readers the read locks held
  th,      \* per thread: where it is in its call and the call's local variables
  last,    \* the last operation: its arguments, the store before it, what it
           \* returned; faulted: some staging call or Commit has failed so far
  msgMeta, \* a MessageMetadata record: its fields and the modified flag
  mLock,   \* the record's RWMutex
  mth,     \* per thread: where it is in its call on the record
  mlast    \* the last call on the record: arguments, record before, returns

vars == <<store, calls, utxoLock, th, last, msgMeta, mLock, mth, mlast>>

ledgerVars == <<store, calls, utxoLock, th, last>>

metaVars == <<msgMeta, mLock, mth, mlast>>

NoCall ==
  [op |-> "none", msIndex |-> 0, newOutputs |-> <<>>, newSpents |-> <<>>,
   failAt |-> 0, address |-> 0, pre |-> EmptyStore, err |-> FALSE,
   cancelled |-> FALSE, commitInvoked |-> FALSE, result |-> <<>>,
   ioError |-> FALSE, missing |-> FALSE, faulted |-> FALSE]

Threads == 1..NumThreads

\* no call on the record yet
NoMetaCall ==
  [op |-> "none", flag |-> FALSE, index |-> 0, triple |-> <<0, 0, 0>>, now |-> 0,
   key |-> SliceOf(<<>>), data |-> SliceOf(<<>>),
   pre |-> NewMessageMetadata(NullMessageID, NullMessageID, NullMessageID),
   retFlag |-> FALSE, retIndex |-> 0, retTriple |-> <<0, 0, 0>>,
   ret |-> <<>>, panic |-> FALSE, err |-> FALSE, called |-> {}]

\* a thread outside any call on the record
MetaIdle == [pc |-> "idle", op |-> "none", triple |-> <<0, 0, 0>>, ret |-> <<>>]

\* no record is in use
NoRecord ==
  /\ msgMeta = NewMessageMetadata(NullMessageID, NullMessageID, NullMessageID)
  /\ mLock = [w |-> 0, writing |-> FALSE, readers |-> 0]
  /\ mth = [t \in Threads |-> MetaIdle]
  /\ mlast = NoMetaCall

\* sync.RWMutex, unlocked
Unlocked == [w |-> 0, writing |-> FALSE, readers |-> 0]

\* a thread outside any call
Idle ==
  [pc |-> "idle", op |-> "none", address |-> 0, cursor |-> <<>>, acc |-> <<>>,
   gets |-> 0, failAt |-> 0, pre |-> EmptyStore, post |-> EmptyStore,
   result |-> <<>>, err |-> FALSE, returned |-> FALSE, id |-> <<0, 0>>]

\* ConfigureStorages on a new, empty store
Init ==
  /\ store = EmptyStore
  /\ calls = 0
  /\ utxoLock = Unlocked
  /\ th = [t \in Threads |-> Idle]
  /\ last = NoCall
  /\ NoRecord

\* The confirmations handed to ApplyConfirmation: at most MaxLen entries.
Confirmations ==
  {c \in SeqsUpTo(Outputs, MaxLen) \X SeqsUpTo(Spents, MaxLen) :
     Len(c[1]) + Len(c[2]) <= MaxLen}

ApplyConfirmation ==
  /\ calls < MaxCalls
  /\ \E msIndex \in MilestoneIndexes, c \in Confirmations :
       \E failAt \in 0..(NumStagingCalls(c[1], c[2]) + 1) :
         LET r == ApplyConfirmationBody(store, msIndex, c[1], c[2], failAt) IN
         /\ store' = r.store
         /\ last' = [NoCall EXCEPT !.op = "ApplyConfirmation", !.msIndex = msIndex,
                       !.newOutputs = c[1], !.newSpents = c[2], !.failAt = failAt,
                       !.pre = store, !.err = r.err, !.cancelled = r.cancelled,
                       !.commitInvoked = r.commitInvoked,
                       !.faulted = last.faulted \/ failAt # 0]
  /\ calls' = calls + 1
  /\ UNCHANGED <<utxoLock, th>>
  /\ UNCHANGED metaVars

UnspentOutputsForAddress ==
  /\ \E address \in Addresses :
       \E ioFailAt \in 0..Cardinality(KeysWithPrefix(store, <<UTXOStoreKeyPrefixUnspent, address>>)) :
         LET r == UnspentOutputsForAddressBody(store, address, ioFailAt) IN
         last' = [NoCall EXCEPT !.op = "UnspentOutputsForAddress", !.address = address,
                    !.failAt = ioFailAt, !.pre = store, !.err = r.err,
                    !.result = r.result, !.ioError = r.ioError, !.missing = r.missing,
                    !.faulted = last.faulted]
  /\ UNCHANGED <<store, calls, utxoLock, th>>
  /\ UNCHANGED metaVars

SpentOutputsForAddress ==
  /\ \E address \in Addresses :
       \E ioFailAt \in 0..Cardinality(KeysWithPrefix(store, <<UTXOStoreKeyPrefixSpent, address>>)) :
         LET r == SpentOutputsForAddressBody(store, address, ioFailAt) IN
         last' = [NoCall EXCEPT !.op = "SpentOutputsForAddress", !.address = address,
                    !.failAt = ioFailAt, !.pre = store, !.err = r.err,
                    !.result = r.result, !.ioError = r.ioError, !.missing = r.missing,
                    !.faulted = last.faulted]
  /\ UNCHANGED <<store, calls, utxoLock, th>>
  /\ UNCHANGED metaVars

Next ==
  \/ ApplyConfirmation
  \/ UnspentOutputsForAddress
  \/ SpentOutputsForAddress

Spec == Init /\ [][Next]_vars

\* ------------------------------------------------------------- concurrency
\* Mutant of CanRLock: a reader does not wait for the writer.
CanRLock_IgnoringWriter(l) == TRUE

\* sync.RWMutex.RLock returns when no writer holds or waits for the lock.
CanRLock(l) == l.w = 0

\* Mutant of CanAnnounce: a writer does not wait for the writer mutex.
CanAnnounce_Always(l) == TRUE

\* sync.RWMutex.Lock: the writer mutex is free
CanAnnounce(l) == l.w = 0

\* Mutant of CanLock: the writer does not wait for the readers to leave.
CanLock_IgnoringReaders(l) == TRUE

\* sync.RWMutex.Lock returns once the readers that hold the lock have left.
CanLock(l) == l.readers = 0

\* the least key with the prefix after cursor, as a set (empty: none is left)
NextKeys(s, prefix, cursor) ==
  LET K == {k \in KeysWithPrefix(s, prefix) : LexLess(cursor, k)}
  IN {k \in K : \A j \in K \ {k} : LexLess(k, j)}

\* ApplyConfirmation: WriteLockLedger, first half (the writer mutex)
ApplyLockAnnounce(t) ==
  /\ th[t].pc = "idle"
  /\ calls < MaxCalls
  /\ CanAnnounce(utxoLock)
  /\ utxoLock' = [utxoLock EXCEPT !.w = t]
  /\ th' = [th EXCEPT ![t] = [Idle EXCEPT !.pc = "apply_wait", !.op = "ApplyConfirmation"]]
  /\ calls' = calls + 1
  /\ UNCHANGED <<store, last>>
  /\ UNCHANGED metaVars

\* ApplyConfirmation: WriteLockLedger returns
ApplyLockAcquire(t) ==
  /\ th[t].pc = "apply_wait"
  /\ CanLock(utxoLock)
  /\ utxoLock' = [utxoLock EXCEPT !.writing = TRUE]
  /\ th' = [th EXCEPT ![t].pc = "apply_body"]
  /\ UNCHANGED <<store, calls, last>>
  /\ UNCHANGED metaVars

\* ApplyConfirmation: the batch is staged and committed
ApplyCommit(t) ==
  /\ th[t].pc = "apply_body"
  /\ \E msIndex \in MilestoneIndexes, c \in Confirmations :
       \E failAt \in 0..(NumStagingCalls(c[1], c[2]) + 1) :
         LET r == ApplyConfirmationBody(store, msIndex, c[1], c[2], failAt) IN
         /\ store' = r.store
         /\ th' = [th EXCEPT ![t].pc = "apply_unlock", ![t].err = r.err]
  /\ UNCHANGED <<calls, utxoLock, last>>
  /\ UNCHANGED metaVars

\* ApplyConfirmation: the deferred WriteUnlockLedger, and the return
ApplyUnlock(t) ==
  /\ th[t].pc = "apply_unlock"
  /\ utxoLock' = [utxoLock EXCEPT !.w = 0, !.writing = FALSE]
  /\ th' = [th EXCEPT ![t].pc = "idle", ![t].returned = TRUE]
  /\ UNCHANGED <<store, calls, last>>
  /\ UNCHANGED metaVars

\* UnspentOutputsForAddress / SpentOutputsForAddress: ReadLockLedger
QueryRLock(t) ==
  /\ th[t].pc = "idle"
  /\ CanRLock(utxoLock)
  /\ utxoLock' = [utxoLock EXCEPT !.readers = @ + 1]
  /\ \E op \in {"UnspentOutputsForAddress", "SpentOutputsForAddress"}, address \in Addresses :
       th' = [th EXCEPT ![t] = [Idle EXCEPT !.pc = "iterate", !.op = op,
                                            !.address = address, !.pre = store]]
  /\ UNCHANGED <<store, calls, last>>
  /\ UNCHANGED metaVars

\* one call of the consumer function by the store's iterator, or the end of
\* the iteration
QueryIterate(t) ==
  /\ th[t].pc = "iterate"
  /\ LET me == th[t]
         next == NextKeys(store, <<PrefixOf(me.op), me.address>>, me.cursor)
     IN IF next = {}
          THEN th' = [th EXCEPT ![t].pc = "return"]
          ELSE \E key \in next, ioFail \in BOOLEAN :
                 LET r == Consumer(me.op, store, key, ioFail, me.acc) IN
                 th' = [th EXCEPT ![t].pc = IF r.continue THEN "iterate" ELSE "return",
                                  ![t].cursor = key,
                                  ![t].acc = r.acc,
                                  ![t].gets = me.gets + 1,
                                  ![t].failAt = IF ioFail THEN me.gets + 1 ELSE 0]
  /\ UNCHANGED <<store, calls, utxoLock, last>>
  /\ UNCHANGED metaVars

\* the deferred ReadUnlockLedger, and the return of (outputs, err)
QueryReturn(t) ==
  /\ th[t].pc = "return"
  /\ utxoLock' = [utxoLock EXCEPT !.readers = @ - 1]
  /\ th' = [th EXCEPT ![t].pc = "idle", ![t].result = th[t].acc, ![t].err = FALSE,
                      ![t].post = store, ![t].returned = TRUE]
  /\ UNCHANGED <<store, calls, last>>
  /\ UNCHANGED metaVars

NextConc ==
  \E t \in Threads :
    \/ ApplyLockAnnounce(t)
    \/ ApplyLockAcquire(t)
    \/ ApplyCommit(t)
    \/ ApplyUnlock(t)
    \/ QueryRLock(t)
    \/ QueryIterate(t)
    \/ QueryReturn(t)

SpecConc == Init /\ [][NextConc]_vars

\* ------------------------------------------------- the single-output reads
\* Output.IsUnspentWithoutLocking: the output's key is in the Unspent index
IsUnspentWithoutLocking(s, output) == Has(s, <<UTXOStoreKeyPrefixUnspent>> \o UTXOKey(output))

\* the body of ReadOutputForTransactionWithoutLocking between its RLock and
\* its return: Get of the Output key and kvStorableLoad
ReadOutputBody(s, id, ioFail) ==
  LET key == <<UTXOStoreKeyPrefixOutput>> \o IdentityKey(id) IN
  IF ioFail \/ ~Has(s, key) \/ ~OutputLoadOk(Tail(key), s[key])
    THEN [output |-> <<>>, err |-> TRUE]
    ELSE [output |-> <<OutputKvStorableLoad(Tail(key), s[key])>>, err |-> FALSE]

\* IsOutputUnspent: ReadLockLedger
IsOutputUnspentRLock(t) ==
  /\ th[t].pc = "idle"
  /\ CanRLock(utxoLock)
  /\ utxoLock' = [utxoLock EXCEPT !.readers = @ + 1]
  /\ \E id \in Identities :
       th' = [th EXCEPT ![t] = [Idle EXCEPT !.pc = "call_read", !.op = "IsOutputUnspent", !.id = id]]
  /\ UNCHANGED <<store, calls, last>>
  /\ UNCHANGED metaVars

\* ReadOutputForTransactionWithoutLocking: ReadLockLedger, when called by the
\* program or by IsOutputUnspent (which holds a read lock already)
ReadOutputRLock(t) ==
  /\ th[t].pc \in {"idle", "call_read"}
  /\ CanRLock(utxoLock)
  /\ utxoLock' = [utxoLock EXCEPT !.readers = @ + 1]
  /\ IF th[t].pc = "call_read"
       THEN th' = [th EXCEPT ![t].pc = "read_get"]
       ELSE \E id \in Identities :
              th' = [th EXCEPT ![t] = [Idle EXCEPT !.pc = "read_get", !.id = id,
                                         !.op = "ReadOutputForTransactionWithoutLocking"]]
  /\ UNCHANGED <<store, calls, last>>
  /\ UNCHANGED metaVars

\* ReadOutputForTransactionWithoutLocking: Get, kvStorableLoad, the deferred
\* ReadUnlockLedger and the return
ReadOutputReturn(t) ==
  /\ th[t].pc = "read_get"
  /\ utxoLock' = [utxoLock EXCEPT !.readers = @ - 1]
  /\ \E ioFail \in BOOLEAN :
       LET r == ReadOutputBody(store, th[t].id, ioFail) IN
       IF th[t].op = "IsOutputUnspent"
         THEN th' = [th EXCEPT ![t].pc = IF r.err THEN "unspent_return" ELSE "unspent_check",
                               ![t].acc = r.output, ![t].err = r.err]
         ELSE th' = [th EXCEPT ![t].pc = "idle", ![t].result = r.output, ![t].err = r.err,
                               ![t].returned = TRUE, ![t].id = <<0, 0>>]
  /\ UNCHANGED <<store, calls, last>>
  /\ UNCHANGED metaVars

\* IsOutputUnspent: output.IsUnspentWithoutLocking()
IsOutputUnspentCheck(t) ==
  /\ th[t].pc = "unspent_check"
  /\ \E ioFail \in BOOLEAN :
       th' = [th EXCEPT ![t].pc = "unspent_return",
                        ![t].acc = IF ioFail THEN <<>>
                                   ELSE <<IsUnspentWithoutLocking(store, th[t].acc[1])>>,
                        ![t].err = ioFail]
  /\ UNCHANGED <<store, calls, utxoLock, last>>
  /\ UNCHANGED metaVars

\* IsOutputUnspent: the deferred ReadUnlockLedger, and the return
IsOutputUnspentReturn(t) ==
  /\ th[t].pc = "unspent_return"
  /\ utxoLock' = [utxoLock EXCEPT !.readers = @ - 1]
  /\ th' = [th EXCEPT ![t].pc = "idle", ![t].acc = <<>>, ![t].id = <<0, 0>>,
                      ![t].result = IF th[t].err THEN <<FALSE>> ELSE th[t].acc,
                      ![t].returned = TRUE]
  /\ UNCHANGED <<store, calls, last>>
  /\ UNCHANGED metaVars

\* one step of thread t: ApplyConfirmation and the single-output reads (the
\* address queries run against ApplyConfirmation in SpecConc)
Step(t) ==
  \/ ApplyLockAnnounce(t)
  \/ ApplyLockAcquire(t)
  \/ ApplyCommit(t)
  \/ ApplyUnlock(t)
  \/ IsOutputUnspentRLock(t)
  \/ ReadOutputRLock(t)
  \/ ReadOutputReturn(t)
  \/ IsOutputUnspentCheck(t)
  \/ IsOutputUnspentReturn(t)

NextGate == \E t \in Threads : Step(t)

SpecGate == Init /\ [][NextGate]_vars

\* the Go scheduler runs every goroutine that can run
SpecGateFair == SpecGate /\ \A t \in Threads : WF_vars(Step(t))

\* ------------------------------------------- a store opened with contents
RECURSIVE StoreOfOutputs(_, _)
StoreOfOutputs(s, O) ==
  IF O = {} THEN s
  ELSE LET o == CHOOSE x \in O : TRUE
       IN StoreOfOutputs(StoreSet(s, <<UTXOStoreKeyPrefixOutput>> \o OutputKvStorableKey(o),
                                  OutputKvStorableValue(o)), O \ {o})

RECURSIVE StoreOfUnspents(_, _)
StoreOfUnspents(s, U) ==
  IF U = {} THEN s
  ELSE LET o == CHOOSE x \in U : TRUE
       IN StoreOfUnspents(StoreSet(s, <<UTXOStoreKeyPrefixUnspent>> \o UTXOKey(o), <<>>), U \ {o})

RECURSIVE StoreOfSpents(_, _)
StoreOfSpents(s, S) ==
  IF S = {} THEN s
  ELSE LET sp == CHOOSE x \in S : TRUE
       IN StoreOfSpents(StoreSet(s, <<UTXOStoreKeyPrefixSpent>> \o SpentKvStorableKey(sp),
                                 SpentKvStorableValue(sp)), S \ {sp})

\* No two records of the set are stored under the same key.
DistinctOutputKeys(O) ==
  \A a, b \in O : OutputKvStorableKey(a) = OutputKvStorableKey(b) => a = b

DistinctSpentKeys(S) ==
  \A a, b \in S : SpentKvStorableKey(a) = SpentKvStorableKey(b) => a = b

\* ConfigureStorages on a store that already holds records: the package takes
\* the store as it is handed over (after a restart, a pruning, a repair).
InitOpened ==
  /\ \E O \in SUBSET Outputs, U \in SUBSET Outputs, S \in SUBSET Spents :
       /\ DistinctOutputKeys(O)
       /\ DistinctSpentKeys(S)
       /\ store = StoreOfSpents(StoreOfUnspents(StoreOfOutputs(EmptyStore, O), U), S)
  /\ calls = 0
  /\ utxoLock = Unlocked
  /\ th = [t \in Threads |-> Idle]
  /\ last = NoCall
  /\ NoRecord

NextOpened ==
  \/ UnspentOutputsForAddress
  \/ SpentOutputsForAddress

SpecOpened == InitOpened /\ [][NextOpened]_vars

\* ------------------------------------------- one record, one caller
\* A record in use: created by NewMessageMetadata or loaded from the storage.
InitMeta ==
  /\ store = EmptyStore
  /\ calls = 0
  /\ utxoLock = Unlocked
  /\ th = [t \in Threads |-> Idle]
  /\ last = NoCall
  /\ msgMeta \in MetaRecords
  /\ mLock = Unlocked
  /\ mth = [t \in Threads |-> MetaIdle]
  /\ mlast = NoMetaCall

SetSolid ==
  /\ \E solid \in BOOLEAN, now \in Times :
       /\ msgMeta' = SetSolidBody(msgMeta, solid, now)
       /\ mlast' = [NoMetaCall EXCEPT !.op = "SetSolid", !.flag = solid, !.now = now,
                                      !.pre = msgMeta]
  /\ UNCHANGED <<mLock, mth>>
  /\ UNCHANGED ledgerVars

SetConfirmed ==
  /\ \E confirmed \in BOOLEAN, confirmationIndex \in MetaIndexes :
       /\ msgMeta' = SetConfirmedBody(msgMeta, confirmed, confirmationIndex)
       /\ mlast' = [NoMetaCall EXCEPT !.op = "SetConfirmed", !.flag = confirmed,
                                      !.index = confirmationIndex, !.pre = msgMeta]
  /\ UNCHANGED <<mLock, mth>>
  /\ UNCHANGED ledgerVars

SetConflicting ==
  /\ \E conflicting \in BOOLEAN :
       /\ msgMeta' = SetConflictingBody(msgMeta, conflicting)
       /\ mlast' = [NoMetaCall EXCEPT !.op = "SetConflicting", !.flag = conflicting,
                                      !.pre = msgMeta]
  /\ UNCHANGED <<mLock, mth>>
  /\ UNCHANGED ledgerVars

SetConeRootIndexes ==
  /\ \E c \in ConeTriples :
       /\ msgMeta' = SetConeRootIndexesBody(msgMeta, c[1], c[2], c[3])
       /\ mlast' = [NoMetaCall EXCEPT !.op = "SetConeRootIndexes", !.triple = c,
                                      !.pre = msgMeta]
  /\ UNCHANGED <<mLock, mth>>
  /\ UNCHANGED ledgerVars

GetConfirmed ==
  /\ mlast' = [NoMetaCall EXCEPT !.op = "GetConfirmed", !.pre = msgMeta,
                                 !.retFlag = GetConfirmedBody(msgMeta)[1],
                                 !.retIndex = GetConfirmedBody(msgMeta)[2]]
  /\ UNCHANGED <<msgMeta, mLock, mth>>
  /\ UNCHANGED ledgerVars

GetConeRootIndexes ==
  /\ mlast' = [NoMetaCall EXCEPT !.op = "GetConeRootIndexes", !.pre = msgMeta,
                                 !.retTriple = GetConeRootIndexesBody(msgMeta)]
  /\ UNCHANGED <<msgMeta, mLock, mth>>
  /\ UNCHANGED ledgerVars

\* The storage persists the record: ObjectStorageKey and ObjectStorageValue.
ObjectStorageValue ==
  /\ mlast' = [NoMetaCall EXCEPT !.op = "ObjectStorageValue", !.pre = msgMeta,
                                 !.key = SliceOf(ObjectStorageKey(msgMeta)),
                                 !.data = SliceOf(ObjectStorageValueBody(msgMeta))]
  /\ UNCHANGED <<msgMeta, mLock, mth>>
  /\ UNCHANGED ledgerVars

\* What the storage may hand to MetadataFactory for persisted bytes: the
\* bytes, one byte more, one byte less (in an array that ends there, or in an
\* array with one more byte).
Inputs(bytes) ==
  {SliceOf(bytes),
   SliceOf(bytes \o <<0>>),
   SliceOf(SubSeq(bytes, 1, Len(bytes) - 1)),
   [b |-> SubSeq(bytes, 1, Len(bytes) - 1), cap |-> <<238>>]}

\* The storage loads the record: MetadataFactory on the key and value read,
\* and the record returned is the one in use from then on.
LoadMetadata ==
  /\ mlast.op = "ObjectStorageValue"
  /\ \E key \in Inputs(mlast.key.b), data \in Inputs(mlast.data.b) :
       LET r == MetadataFactory(key, data) IN
       /\ msgMeta' = IF r.panic \/ r.err THEN msgMeta ELSE r.m[1]
       /\ mlast' = [NoMetaCall EXCEPT !.op = "MetadataFactory", !.pre = msgMeta,
                                      !.key = key, !.data = data, !.ret = r.m,
                                      !.panic = r.panic, !.err = r.err]
  /\ UNCHANGED <<mLock, mth>>
  /\ UNCHANGED ledgerVars

NextMeta ==
  \/ SetSolid
  \/ SetConfirmed
  \/ SetConflicting
  \/ SetConeRootIndexes
  \/ GetConfirmed
  \/ GetConeRootIndexes
  \/ ObjectStorageValue
  \/ LoadMetadata

SpecMeta == InitMeta /\ [][NextMeta]_vars

\* ------------------------------------------ one record, several callers
\* A record created by NewMessageMetadata and handed to the threads.
InitMetaConc ==
  /\ store = EmptyStore
  /\ calls = 0
  /\ utxoLock = Unlocked
  /\ th = [t \in Threads |-> Idle]
  /\ last = NoCall
  /\ msgMeta = NewMessageMetadata(HashOf(1), HashOf(17), HashOf(34))
  /\ mLock = Unlocked
  /\ mth = [t \in Threads |-> MetaIdle]
  /\ mlast = [NoMetaCall EXCEPT !.pre = msgMeta]

\* the calls that take m.Lock()
Writers ==
  {"SetSolid", "SetConfirmed", "SetConflicting", "SetConeRootIndexes", "ObjectStorageValue"}

\* where a writer is once it has the lock
FirstStep(op) ==
  CASE op = "SetConeRootIndexes" -> "ycri"
    [] op = "ObjectStorageValue" -> "encode"
    [] OTHER -> "body"

\* m.Lock(), first half (the writer mutex); the arguments of
\* SetConeRootIndexes are kept, and remembered in mlast.called
MetaLockAnnounce(t) ==
  /\ mth[t].pc = "idle"
  /\ CanAnnounce(mLock)
  /\ mLock' = [mLock EXCEPT !.w = t]
  /\ \E op \in Writers :
       IF op = "SetConeRootIndexes"
         THEN \E c \in ConeTriples :
                /\ mth' = [mth EXCEPT ![t] = [MetaIdle EXCEPT !.pc = "lock_wait", !.op = op,
                                                              !.triple = c]]
                /\ mlast' = [mlast EXCEPT !.called = @ \cup {c}]
         ELSE /\ mth' = [mth EXCEPT ![t] = [MetaIdle EXCEPT !.pc = "lock_wait", !.op = op]]
              /\ mlast' = mlast
  /\ UNCHANGED msgMeta
  /\ UNCHANGED ledgerVars

\* m.Lock() returns
MetaLockAcquire(t) ==
  /\ mth[t].pc = "lock_wait"
  /\ CanLock(mLock)
  /\ mLock' = [mLock EXCEPT !.writing = TRUE]
  /\ mth' = [mth EXCEPT ![t].pc = FirstStep(mth[t].op)]
  /\ UNCHANGED <<msgMeta, mlast>>
  /\ UNCHANGED ledgerVars

\* SetSolid, SetConfirmed, SetConflicting: the comparison and the assignments
FlagSetterBody(t) ==
  /\ mth[t].pc = "body"
  /\ \E flag \in BOOLEAN, now \in Times, index \in MetaIndexes :
       msgMeta' = CASE mth[t].op = "SetSolid" -> SetSolidBody(msgMeta, flag, now)
                    [] mth[t].op = "SetConfirmed" -> SetConfirmedBody(msgMeta, flag, index)
                    [] OTHER -> SetConflictingBody(msgMeta, flag)
  /\ mth' = [mth EXCEPT ![t].pc = "unlock"]
  /\ UNCHANGED <<mLock, mlast>>
  /\ UNCHANGED ledgerVars

\* SetConeRootIndexes: m.youngestConeRootIndex = ycri
WriteYoungest(t) ==
  /\ mth[t].pc = "ycri"
  /\ msgMeta' = [msgMeta EXCEPT !.youngestConeRootIndex = mth[t].triple[1]]
  /\ mth' = [mth EXCEPT ![t].pc = "ocri"]
  /\ UNCHANGED <<mLock, mlast>>
  /\ UNCHANGED ledgerVars

\* SetConeRootIndexes: m.oldestConeRootIndex = ocri
WriteOldest(t) ==
  /\ mth[t].pc = "ocri"
  /\ msgMeta' = [msgMeta EXCEPT !.oldestConeRootIndex = mth[t].triple[2]]
  /\ mth' = [mth EXCEPT ![t].pc = "ci"]
  /\ UNCHANGED <<mLock, mlast>>
  /\ UNCHANGED ledgerVars

\* SetConeRootIndexes: m.coneRootCalculationIndex = ci
WriteCalculationIndex(t) ==
  /\ mth[t].pc = "ci"
  /\ msgMeta' = [msgMeta EXCEPT !.coneRootCalculationIndex = mth[t].triple[3]]
  /\ mth' = [mth EXCEPT ![t].pc = "modified"]
  /\ UNCHANGED <<mLock, mlast>>
  /\ UNCHANGED ledgerVars

\* SetConeRootIndexes: m.SetModified(true)
MarkModified(t) ==
  /\ mth[t].pc = "modified"
  /\ msgMeta' = [msgMeta EXCEPT !.modified = TRUE]
  /\ mth' = [mth EXCEPT ![t].pc = "unlock"]
  /\ UNCHANGED <<mLock, mlast>>
  /\ UNCHANGED ledgerVars

\* ObjectStorageValue: the value is built
EncodeValue(t) ==
  /\ mth[t].pc = "encode"
  /\ mth' = [mth EXCEPT ![t].pc = "unlock", ![t].ret = <<ObjectStorageValueBody(msgMeta)>>]
  /\ UNCHANGED <<msgMeta, mLock, mlast>>
  /\ UNCHANGED ledgerVars

\* the deferred m.Unlock(), and the return: the value built goes to the
\* caller
MetaUnlock(t) ==
  /\ mth[t].pc = "unlock"
  /\ mLock' = [mLock EXCEPT !.w = 0, !.writing = FALSE]
  /\ mth' = [mth EXCEPT ![t].pc = "idle", ![t].ret = <<>>]
  /\ UNCHANGED <<msgMeta, mlast>>
  /\ UNCHANGED ledgerVars

\* GetConeRootIndexes: m.RLock()
MetaRLock(t) ==
  /\ mth[t].pc = "idle"
  /\ CanRLock(mLock)
  /\ mLock' = [mLock EXCEPT !.readers = @ + 1]
  /\ mth' = [mth EXCEPT ![t] = [MetaIdle EXCEPT !.pc = "read", !.op = "GetConeRootIndexes"]]
  /\ UNCHANGED <<msgMeta, mlast>>
  /\ UNCHANGED ledgerVars

\* GetConeRootIndexes: the three fields are read, the deferred m.RUnlock(),
\* and the return
MetaReadReturn(t) ==
  /\ mth[t].pc = "read"
  /\ mLock' = [mLock EXCEPT !.readers = @ - 1]
  /\ mth' = [mth EXCEPT ![t].pc = "idle", ![t].ret = <<GetConeRootIndexesBody(msgMeta)>>]
  /\ UNCHANGED <<msgMeta, mlast>>
  /\ UNCHANGED ledgerVars

MetaStep(t) ==
  \/ MetaLockAnnounce(t)
  \/ MetaLockAcquire(t)
  \/ FlagSetterBody(t)
  \/ WriteYoungest(t)
  \/ WriteOldest(t)
  \/ WriteCalculationIndex(t)
  \/ MarkModified(t)
  \/ EncodeValue(t)
  \/ MetaUnlock(t)
  \/ MetaRLock(t)
  \/ MetaReadReturn(t)

NextMetaConc == \E t \in Threads : MetaStep(t)

SpecMetaConc == InitMetaConc /\ [][NextMetaConc]_vars

\* ------------------------------------------------------------------ claims
OutputExists(s, id) == Has(s, <<UTXOStoreKeyPrefixOutput>> \o IdentityKey(id))

InIndex(s, prefix, id) ==
  \E k \in DOMAIN s : k[1] = prefix /\ KeyWithoutPrefixAndAddress(k) = IdentityKey(id)

InUnspent(s, id) == InIndex(s, UTXOStoreKeyPrefixUnspent, id)

InSpent(s, id) == InIndex(s, UTXOStoreKeyPrefixSpent, id)

Applied == last.op = "ApplyConfirmation"

IsQuery(op) == op \in {"UnspentOutputsForAddress", "SpentOutputsForAddress"}

IdentityOf(output) == <<output.TransactionID, output.OutputIndex>>

\* C1: ApplyConfirmation with a newSpents entry whose output is not in the
\* Output index leaves the whole store (Output, Unspent, Spent, MilestoneDiff)
\* as it was before the call.
C1_MissingSpentHasNoEffect ==
  (Applied /\ ~last.faulted /\ \E i \in 1..Len(last.newSpents) :
                ~OutputExists(last.pre, IdentityOf(last.newSpents[i].Output)))
    => store = last.pre

\* C2: no identity is in the Unspent index and in the Spent index at once.
C2_NeverUnspentAndSpent ==
  ~last.faulted =>
  \A id \in Identities : ~(InUnspent(store, id) /\ InSpent(store, id))

\* C3: an identity is in the Unspent or the Spent index iff its Output record
\* exists.
C3_IndexedIffOutputExists ==
  ~last.faulted =>
  \A id \in Identities :
    (InUnspent(store, id) \/ InSpent(store, id)) <=> OutputExists(store, id)

\* C4: when a staging call (Set or Delete) of ApplyConfirmation fails, the
\* batch is cancelled, Commit is not invoked, the error is returned and the
\* store is unchanged.
C4_StagingFailureCancels ==
  (Applied /\ last.failAt \in 1..NumStagingCalls(last.newOutputs, last.newSpents))
    => /\ last.cancelled
       /\ ~last.commitInvoked
       /\ last.err
       /\ store = last.pre

QueryBody(op, s, address, ioFailAt) ==
  IF op = "UnspentOutputsForAddress" THEN UnspentOutputsForAddressBody(s, address, ioFailAt)
  ELSE SpentOutputsForAddressBody(s, address, ioFailAt)

\* C5: what an address query returns is what it returns on the store as it
\* was when the query took the lock or on the store as it is when the query
\* returns, each a state between two confirmations.
C5_QuerySeesWholeConfirmations ==
  \A t \in Threads :
    (IsQuery(th[t].op) /\ th[t].returned) =>
      \/ th[t].result = QueryBody(th[t].op, th[t].pre, th[t].address, th[t].failAt).result
      \/ th[t].result = QueryBody(th[t].op, th[t].post, th[t].address, th[t].failAt).result

\* C5 witness: a query has returned two records while another thread was
\* inside ApplyConfirmation.
C5_Witness ==
  \E t, u \in Threads :
    /\ IsQuery(th[t].op) /\ th[t].returned /\ Len(th[t].result) = 2
    /\ th[u].op = "ApplyConfirmation" /\ th[u].pc = "apply_wait"

\* C6: after a successful ApplyConfirmation(idx, outs, spents) the record
\* stored under idx is the count of outs, the keys of outs in the order
\* given, the count of spents, the keys of spents in the order given, and
\* nothing else.
C6_DiffRecord ==
  (Applied /\ ~last.err) =>
    LET key == MilestoneDiffKey(last.msIndex)
        outs == last.newOutputs
        spents == last.newSpents
        n == Len(outs)
        m == Len(spents)
    IN /\ Has(store, key)
       /\ LET v == store[key] IN
          /\ Len(v) = 4 + 3 * n + 4 + 4 * m
          /\ SubSeq(v, 1, 4) = <<n, 0, 0, 0>>
          /\ \A i \in 1..n :
               SubSeq(v, 4 + 3 * (i - 1) + 1, 4 + 3 * i)
                 = <<outs[i].TransactionID, outs[i].OutputIndex, 0>>
          /\ SubSeq(v, 4 + 3 * n + 1, 8 + 3 * n) = <<m, 0, 0, 0>>
          /\ \A j \in 1..m :
               SubSeq(v, 8 + 3 * n + 4 * (j - 1) + 1, 8 + 3 * n + 4 * j)
                 = <<spents[j].Output.Address, spents[j].Output.TransactionID,
                     spents[j].Output.OutputIndex, 0>>

\* C6 witness: a successful confirmation with two new outputs in descending
\* order of transaction ID, or two spents in descending order.
C6_Witness ==
  /\ Applied /\ ~last.err
  /\ \/ /\ Len(last.newOutputs) = 2
        /\ last.newOutputs[1].TransactionID > last.newOutputs[2].TransactionID
     \/ /\ Len(last.newSpents) = 2
        /\ last.newSpents[1].Output.TransactionID > last.newSpents[2].Output.TransactionID

\* C7: a MilestoneDiff record, once stored, is not changed by a later
\* ApplyConfirmation.
C7_DiffWriteOnce ==
  (Applied /\ ~last.faulted) =>
    \A k \in DOMAIN last.pre :
      k[1] = UTXOStoreKeyPrefixMilestoneDiffs => (Has(store, k) /\ store[k] = last.pre[k])

\* C8: a Spent record, once stored, is not replaced by a later
\* ApplyConfirmation naming another spending transaction.
C8_SpentCreatedOnce ==
  (Applied /\ ~last.faulted) =>
    \A k \in DOMAIN last.pre :
      k[1] = UTXOStoreKeyPrefixSpent => (Has(store, k) /\ store[k] = last.pre[k])

\* C9: when a Get of the Output index fails with an I/O error during
\* UnspentOutputsForAddress or SpentOutputsForAddress, the call returns an
\* error.
\* Stated for a ledger in which every index entry has its Output record, so
\* that the failing Get is a failure of the store and not a missing record.
C9_StoreErrorPropagates ==
  (/\ IsQuery(last.op)
   /\ last.ioError
   /\ \A id \in Identities :
        (InUnspent(store, id) \/ InSpent(store, id)) => OutputExists(store, id))
    => last.err

\* C10: UnspentOutputsForAddress returns every unspent output of the address
\* whose Output record exists, also when another marker's Output record is
\* missing.
C10_MissingJoinSkipped ==
  (last.op = "UnspentOutputsForAddress" /\ last.failAt = 0) =>
    \A k \in KeysWithPrefix(store, <<UTXOStoreKeyPrefixUnspent, last.address>>) :
      LET outputKey == <<UTXOStoreKeyPrefixOutput>> \o KeyWithoutPrefixAndAddress(k) IN
      Has(store, outputKey) =>
        \E i \in 1..Len(last.result) :
          last.result[i] = OutputKvStorableLoad(Tail(outputKey), store[outputKey])

\* the newSpents entry i of the last ApplyConfirmation names an output that
\* was confirmed and unspent before the call
SpendsUnspent(i) ==
  LET o == last.newSpents[i].Output IN
  /\ Has(last.pre, <<UTXOStoreKeyPrefixOutput>> \o OutputKvStorableKey(o))
  /\ last.pre[<<UTXOStoreKeyPrefixOutput>> \o OutputKvStorableKey(o)] = OutputKvStorableValue(o)
  /\ Has(last.pre, <<UTXOStoreKeyPrefixUnspent>> \o UTXOKey(o))

\* the positions of result whose output has the identity of o
PositionsOf(result, o, unspent) ==
  {j \in 1..Len(result) :
     IF unspent THEN IdentityOf(result[j]) = IdentityOf(o)
     ELSE IdentityOf(result[j].Output) = IdentityOf(o)}

\* what C11 says of an address query that follows a successful confirmation
\* spending o, no Get of the query failing in the store
MovedToSpent(i) ==
  LET sp == last.newSpents[i]
      o == sp.Output
  IN (IsQuery(last'.op) /\ last'.address = o.Address /\ last'.failAt = 0) =>
       IF last'.op = "UnspentOutputsForAddress"
         THEN PositionsOf(last'.result, o, TRUE) = {}
         ELSE /\ Cardinality(PositionsOf(last'.result, o, FALSE)) = 1
              /\ \A j \in PositionsOf(last'.result, o, FALSE) : last'.result[j].Output = o

\* C11: after a successful ApplyConfirmation that spends a confirmed unspent
\* output, and before the next confirmation, UnspentOutputsForAddress of its
\* address does not return the output and SpentOutputsForAddress returns it
\* exactly once, with the original Output attached.
C11_SpentOutputMoves ==
  [][(Applied /\ ~last.err) =>
       \A i \in 1..Len(last.newSpents) : SpendsUnspent(i) => MovedToSpent(i)]_vars

\* C18: for every newSpents entry of an ApplyConfirmation the Output record
\* of its identity is after the call what it was before.
C18_SpendingKeepsOutputRecord ==
  Applied =>
    \A i \in 1..Len(last.newSpents) :
      LET key == <<UTXOStoreKeyPrefixOutput>> \o OutputKvStorableKey(last.newSpents[i].Output)
      IN /\ Has(store, key) <=> Has(last.pre, key)
         /\ Has(store, key) => store[key] = last.pre[key]

\* C18 as amended: the same, for the entries whose identity is not among the
\* newOutputs of the same call.
C18_SpendingKeepsOutputRecordUnlessStored ==
  Applied =>
    \A i \in 1..Len(last.newSpents) :
      LET o == last.newSpents[i].Output
          key == <<UTXOStoreKeyPrefixOutput>> \o OutputKvStorableKey(o)
      IN (\A j \in 1..Len(last.newOutputs) : IdentityOf(last.newOutputs[j]) # IdentityOf(o)) =>
           /\ Has(store, key) <=> Has(last.pre, key)
           /\ Has(store, key) => store[key] = last.pre[key]

\* C18 witness: a successful confirmation has spent an output whose record
\* was stored by an earlier one.
C18_Witness ==
  /\ Applied /\ ~last.err /\ last.newOutputs = <<>>
  /\ \E i \in 1..Len(last.newSpents) : SpendsUnspent(i)

\* the read locks thread t holds where it is
Held(t) ==
  CASE th[t].pc \in {"iterate", "return", "call_read", "unspent_check", "unspent_return"} -> 1
    [] th[t].pc = "read_get" -> IF th[t].op = "IsOutputUnspent" THEN 2 ELSE 1
    [] OTHER -> 0

\* thread t is between WriteLockLedger and WriteUnlockLedger
InWrite(t) == th[t].pc \in {"apply_body", "apply_unlock"}

RECURSIVE SumHeld(_)
SumHeld(T) ==
  IF T = {} THEN 0
  ELSE LET t == CHOOSE x \in T : TRUE IN Held(t) + SumHeld(T \ {t})

\* C12: while a thread is inside the critical section of ApplyConfirmation no
\* other thread is inside ApplyConfirmation's or inside a ledger read's, and
\* the lock holds what the threads inside an operation hold and nothing else:
\* a thread that has returned, with or without an error, holds no read or
\* write lock.
C12_GateExclusiveAndReleased ==
  /\ \A t, u \in Threads : (InWrite(t) /\ u # t) => (~InWrite(u) /\ Held(u) = 0)
  /\ utxoLock.readers = SumHeld(Threads)
  /\ utxoLock.writing <=> \E t \in Threads : InWrite(t)
  /\ \A t \in Threads :
       utxoLock.w = t <=> th[t].pc \in {"apply_wait", "apply_body", "apply_unlock"}
  /\ (\A t \in Threads : th[t].pc = "idle") => utxoLock = Unlocked

\* C12 witness: a thread is inside the critical section of ApplyConfirmation
\* after another thread has returned from IsOutputUnspent with an error.
C12_Witness ==
  \E t, u \in Threads :
    /\ th[t].pc = "apply_body"
    /\ th[u].pc = "idle" /\ th[u].op = "IsOutputUnspent" /\ th[u].returned /\ th[u].err

\* C19: every IsOutputUnspent call that has started returns.
C19_IsOutputUnspentReturns ==
  \A t \in Threads :
    (th[t].op = "IsOutputUnspent" /\ th[t].pc # "idle") ~> (th[t].pc = "idle")

\* the fields of a record that are persisted
FieldsOf(r) ==
  <<r.messageID, r.metadata, r.solidificationTimestamp, r.confirmationIndex,
    r.youngestConeRootIndex, r.oldestConeRootIndex, r.coneRootCalculationIndex,
    r.parent1MessageID, r.parent2MessageID>>

IsSolid(r) == HasBit(r.metadata, MessageMetadataSolid)

IsConfirmed(r) == HasBit(r.metadata, MessageMetadataConfirmed)

\* C13: SetSolid(v) on a record whose solid flag is v leaves the timestamp,
\* the flag and the modified marker as they were; SetSolid(v) on a record
\* whose flag is not v sets the flag to v, the timestamp to the current time
\* (v true) or to zero (v false), and the modified marker.
C13_SetSolidIdempotent ==
  mlast.op = "SetSolid" =>
    IF mlast.flag = IsSolid(mlast.pre)
      THEN /\ msgMeta.solidificationTimestamp = mlast.pre.solidificationTimestamp
           /\ msgMeta.metadata = mlast.pre.metadata
           /\ msgMeta.modified = mlast.pre.modified
      ELSE /\ IsSolid(msgMeta) = mlast.flag
           /\ msgMeta.solidificationTimestamp = (IF mlast.flag THEN mlast.now ELSE 0)
           /\ msgMeta.modified

\* C13 witness: SetSolid(true) at another time on a solid record that was
\* not marked modified.
C13_Witness ==
  /\ mlast.op = "SetSolid" /\ mlast.flag /\ IsSolid(mlast.pre)
  /\ ~mlast.pre.modified
  /\ mlast.pre.solidificationTimestamp # mlast.now

\* C14: SetConfirmed(true, j) on a record confirmed at i leaves the index, the
\* flag and the modified marker as they were, so that GetConfirmed returns
\* (true, i); and a setter changes confirmationIndex only if it is
\* SetConfirmed changing the confirmed flag.
C14_SetConfirmedNoOp ==
  /\ (mlast.op = "SetConfirmed" /\ mlast.flag /\ IsConfirmed(mlast.pre)) =>
       /\ GetConfirmedBody(msgMeta) = <<TRUE, mlast.pre.confirmationIndex>>
       /\ msgMeta.modified = mlast.pre.modified
  /\ (/\ mlast.op \in {"SetSolid", "SetConfirmed", "SetConflicting", "SetConeRootIndexes"}
      /\ msgMeta.confirmationIndex # mlast.pre.confirmationIndex) =>
       /\ mlast.op = "SetConfirmed"
       /\ IsConfirmed(msgMeta) # IsConfirmed(mlast.pre)

\* C14 witness: SetConfirmed(true, j) on a record confirmed at i # j that was
\* not marked modified.
C14_Witness ==
  /\ mlast.op = "SetConfirmed" /\ mlast.flag /\ IsConfirmed(mlast.pre)
  /\ mlast.pre.confirmationIndex = 42 /\ mlast.index = 2147483647
  /\ ~mlast.pre.modified

\* the last call is MetadataFactory on the key and the value of the record
RoundTrip ==
  /\ mlast.op = "MetadataFactory"
  /\ mlast.key = SliceOf(ObjectStorageKey(mlast.pre))
  /\ mlast.data = SliceOf(ObjectStorageValueBody(mlast.pre))

\* C15: MetadataFactory on ObjectStorageKey and ObjectStorageValue of a record
\* returns a record with the same messageID, bitmask, timestamp,
\* confirmationIndex, cone-root indices and parents.
C15_EncodeDecodeRoundTrip ==
  RoundTrip =>
    /\ ~mlast.panic /\ ~mlast.err
    /\ Len(mlast.ret) = 1
    /\ FieldsOf(mlast.ret[1]) = FieldsOf(mlast.pre)

\* C15 witness: the round trip of a record with the three flags, a negative
\* timestamp, the largest index and two different parents.
C15_Witness ==
  /\ RoundTrip
  /\ mlast.pre.metadata = 7
  /\ mlast.pre.solidificationTimestamp < 0
  /\ mlast.pre.confirmationIndex = 2147483647
  /\ mlast.pre.youngestConeRootIndex = 2147483647
  /\ mlast.pre.parent1MessageID # mlast.pre.parent2MessageID

\* C16: MetadataFactory on a key that is not 32 bytes long or a value that is
\* not 85 bytes long fails and returns no record.
C16_WrongLengthRejected ==
  (/\ mlast.op = "MetadataFactory"
   /\ (Len(mlast.key.b) # 32 \/ Len(mlast.data.b) # 85)) =>
    /\ mlast.err \/ mlast.panic
    /\ mlast.ret = <<>>

\* the cone-root indices of an encoded value
ConeOf(data) ==
  <<Uint32(SubSeq(data, 10, 13)), Uint32(SubSeq(data, 14, 17)), Uint32(SubSeq(data, 18, 21))>>

\* the triples a reader may meet: the zeros of the new record and the
\* arguments of the SetConeRootIndexes calls made
CalledTriples == {<<0, 0, 0>>} \cup mlast.called

\* C17: the triple returned by GetConeRootIndexes or encoded by
\* ObjectStorageValue, and the triple of the record while no writer is inside,
\* is the zeros or the arguments of one SetConeRootIndexes call; and once the
\* body of a SetConeRootIndexes call is done the record is marked modified.
C17_ConeRootTripleWhole ==
  /\ \A t \in Threads :
       (mth[t].op = "GetConeRootIndexes" /\ mth[t].ret # <<>>) =>
         mth[t].ret[1] \in CalledTriples
  /\ \A t \in Threads :
       (mth[t].op = "ObjectStorageValue" /\ mth[t].ret # <<>>) =>
         ConeOf(mth[t].ret[1]) \in CalledTriples
  /\ ~mLock.writing => GetConeRootIndexesBody(msgMeta) \in CalledTriples
  /\ \A t \in Threads :
       (mth[t].op = "SetConeRootIndexes" /\ mth[t].pc \in {"unlock", "idle"}) =>
         msgMeta.modified

\* C17 witness: GetConeRootIndexes has returned the arguments of one call
\* and ObjectStorageValue has encoded the arguments of another, the record
\* holding those.
C17_Witness ==
  \E t, u \in Threads :
    /\ mth[t].op = "GetConeRootIndexes" /\ mth[t].ret = <<(<<7, 5, 9>>)>>
    /\ mth[u].op = "ObjectStorageValue" /\ mth[u].pc = "unlock"
    /\ ConeOf(mth[u].ret[1]) = <<2147483647, 42, 7>>

\* C20: while no writer is inside the record, confirmationIndex is 0 if the
\* confirmed flag is false, solidificationTimestamp is 0 if the solid flag is
\* false, and messageID and the parent IDs are those given to
\* NewMessageMetadata.
C20_RecordInvariants ==
  ~mLock.writing =>
    /\ ~IsConfirmed(msgMeta) => msgMeta.confirmationIndex = 0
    /\ ~IsSolid(msgMeta) => msgMeta.solidificationTimestamp = 0
    /\ msgMeta.messageID = mlast.pre.messageID
    /\ msgMeta.parent1MessageID = mlast.pre.parent1MessageID
    /\ msgMeta.parent2MessageID = mlast.pre.parent2MessageID

\* C20 witness: after calls of SetSolid and SetConfirmed by two threads the
\* record is modified, conflicting, has cone-root indices, and is neither
\* solid nor confirmed.
C20_Witness ==
  \E t, u \in Threads :
    /\ mth[t].op = "SetSolid" /\ mth[t].pc = "idle"
    /\ mth[u].op = "SetConfirmed" /\ mth[u].pc = "idle"
    /\ ~mLock.writing
    /\ ~IsSolid(msgMeta) /\ ~IsConfirmed(msgMeta)
    /\ HasBit(msgMeta.metadata, MessageMetadataConflicting)
    /\ GetConeRootIndexesBody(msgMeta) = <<7, 5, 9>>
====
